---- MODULE Spec2Model ----
(***************************************************************************)
(* Revoke-and-reveal workflow of the application management console:       *)
(*   - useRevokeApplication (mutation hook): GET the record, generate a    *)
(*     secret, build the update request, PUT it, invalidate two cache keys *)
(*   - ApplicationRevokeDialog (confirmation dialog)                       *)
(*   - EditGeneralSettings (settings panel holding the dialogs' state)     *)
(***************************************************************************)
EXTENDS Integers, Sequences, FiniteSets, TLC

\* ------------------------------------------------------------------------
\* Bounds and value domains
\* ------------------------------------------------------------------------

\* number of invocations of the mutation (each runs once, possibly overlapping)
MaxInv == 2

Inv == 1..MaxInv

\* clipboard writes and copy timers outstanding at once in the disclosure dialog
MaxOutstanding == 2

\* application ids passed as variables.applicationId
AppIds == {"a1", "a2"}

\* values generateClientSecret can return (abstracted 32-character strings)
Secrets == {"s1", "s2"}

\* rejections of http.request (network error, non-success status)
HttpErrors == {"NetworkError", "Status500"}

\* a value not yet assigned (JavaScript undefined)
Undefined == [undefined |-> TRUE]

\* ------------------------------------------------------------------------
\* Application records
\* ------------------------------------------------------------------------

OAuth2Entry(secret) ==
  [type |-> "oauth2", config |-> [client_id |-> "x", client_secret |-> secret]]

OtherEntry ==
  [type |-> "saml", config |-> [client_id |-> "y", client_secret |-> "keep"]]

BaseRecord(a) == [id |-> a, name |-> "app", created_at |-> 0, updated_at |-> 0]

WithInbound(rec, list) == rec @@ [inbound_auth_config |-> list]

\* the shapes of record the server may hold when the console starts
InitialRecords(a) ==
  { WithInbound(BaseRecord(a), <<OAuth2Entry("old")>>),
    WithInbound(BaseRecord(a), <<OtherEntry, OAuth2Entry("old")>>),
    WithInbound(BaseRecord(a), <<OtherEntry>>),
    WithInbound(BaseRecord(a), <<>>),
    BaseRecord(a) }

\* ------------------------------------------------------------------------
\* Pure functions of the mutation hook
\* ------------------------------------------------------------------------

\* a toUpdateRequest that strips the timestamps only
toUpdateRequestKeepsId(application) ==
  [k \in DOMAIN application \ {"created_at", "updated_at"} |-> application[k]]

\* const {id, created_at, updated_at, ...rest} = application; return rest
toUpdateRequest(application) ==
  [k \in DOMAIN application \ {"id", "created_at", "updated_at"} |-> application[k]]

\* inboundAuthConfig.find((config) => config.type === 'oauth2'): index of the
\* first match, 0 when there is none
FindOAuth2(list) ==
  LET hits == {j \in 1..Len(list) : list[j].type = "oauth2"}
  IN  IF hits = {} THEN 0 ELSE CHOOSE j \in hits : \A h \in hits : j <= h

\* an injection that sets the client_secret of every entry of the list
InjectSecretEveryEntry(request, secret) ==
  IF "inbound_auth_config" \in DOMAIN request
       /\ Len(request["inbound_auth_config"]) > 0
       /\ FindOAuth2(request["inbound_auth_config"]) # 0
  THEN [request EXCEPT !["inbound_auth_config"] =
          [j \in 1..Len(@) |-> [@[j] EXCEPT !.config.client_secret = secret]]]
  ELSE request

\* an injection that adds an oauth2 entry to a record that has none
InjectSecretOrAppend(request, secret) ==
  IF "inbound_auth_config" \in DOMAIN request
       /\ Len(request["inbound_auth_config"]) > 0
       /\ FindOAuth2(request["inbound_auth_config"]) # 0
  THEN LET j == FindOAuth2(request["inbound_auth_config"])
       IN  [request EXCEPT !["inbound_auth_config"][j].config.client_secret = secret]
  ELSE IF "inbound_auth_config" \in DOMAIN request
       THEN [request EXCEPT !["inbound_auth_config"] = Append(@, OAuth2Entry(secret))]
       ELSE request @@ [inbound_auth_config |-> <<OAuth2Entry(secret)>>]

\* if (Array.isArray(inboundAuthConfig) && inboundAuthConfig.length > 0) {
\*   const oauth2Config = inboundAuthConfig.find(...);
\*   if (oauth2Config) oauth2Config.config.client_secret = newClientSecret; }
InjectSecret(request, secret) ==
  IF "inbound_auth_config" \in DOMAIN request
       /\ Len(request["inbound_auth_config"]) > 0
       /\ FindOAuth2(request["inbound_auth_config"]) # 0
  THEN LET j == FindOAuth2(request["inbound_auth_config"])
       IN  [request EXCEPT !["inbound_auth_config"][j].config.client_secret = secret]
  ELSE request

\* the client_secret of the first oauth2 entry of a record or request, "" if none
OAuth2Secret(rec) ==
  IF "inbound_auth_config" \in DOMAIN rec /\ FindOAuth2(rec["inbound_auth_config"]) # 0
  THEN rec["inbound_auth_config"][FindOAuth2(rec["inbound_auth_config"])].config.client_secret
  ELSE ""

HasOAuth2(rec) ==
  "inbound_auth_config" \in DOMAIN rec /\ FindOAuth2(rec["inbound_auth_config"]) # 0

\* ------------------------------------------------------------------------
\* The server behind GET/PUT <base>/applications/{id}
\* ------------------------------------------------------------------------

\* full-resource replacement: the body plus the server-assigned fields
ServerReplace(stored, body) ==
  body @@ [id |-> stored.id, created_at |-> stored.created_at,
           updated_at |-> stored.updated_at + 1]

\* the record as the server returns it: secrets echoed or blanked
ServerView(rec, echo) ==
  IF echo \/ ~("inbound_auth_config" \in DOMAIN rec) THEN rec
  ELSE [rec EXCEPT !["inbound_auth_config"] =
          [j \in 1..Len(@) |-> [@[j] EXCEPT !.config.client_secret = ""]]]

\* cache keys of ApplicationQueryKeys
ApplicationKey(a) == <<"application", a>>
ApplicationsKey == <<"applications">>

VARIABLES
  server,              \* application id -> record stored by the server
  echoSecrets,         \* whether the server's responses show client secrets
  pc,                  \* invocation -> position in mutationFn / onSuccess
  variables,           \* invocation -> variables.applicationId
  currentApplication,  \* invocation -> getResponse.data
  mutationSecret,      \* invocation -> newClientSecret of mutationFn ("" before step 2)
  updateRequest,       \* invocation -> body of the PUT
  data,                \* invocation -> {application, clientSecret} returned
  mutationError,       \* invocation -> error the mutation rejected with
  httpLog,             \* invocation -> requests dispatched, in order, with outcome
  applied,             \* invocation -> TRUE once the server applied its PUT
  invalidated          \* invocation -> invalidateQueries calls: <<key, rejected>>

wfVars == <<server, echoSecrets, pc, variables, currentApplication, mutationSecret,
            updateRequest, data, mutationError, httpLog, applied, invalidated>>

VARIABLES
  applicationId,       \* ApplicationRevokeDialog prop: application.id ("" if absent)
  isRevoking,          \* ApplicationRevokeDialog state
  error,               \* ApplicationRevokeDialog state: message or Null
  awaiting,            \* handleConfirm calls suspended at their await
  revokeDialogOpen,    \* EditGeneralSettings state
  secretDialogOpen,    \* EditGeneralSettings state
  newClientSecret,     \* EditGeneralSettings state: the secret held for display
  errorSnackbar,       \* EditGeneralSettings state: {open, message}
  copied,              \* ClientSecretSuccessDialog state
  showSecret,          \* ClientSecretSuccessDialog state
  clipboardWrites,     \* text -> navigator.clipboard.writeText calls not yet settled
  copyTimers,          \* setTimeout(() => setCopied(false), 2000) not yet fired
  clipboard,           \* the text on the system clipboard
  lastOp,              \* the handler that ran last
  calls,               \* callbacks the dialog invoked in the last handler, in order
  output               \* logger and console lines written by the last handler

\* state of ClientSecretSuccessDialog and of the clipboard behind it
secretVars == <<copied, showSecret, clipboardWrites, copyTimers, clipboard>>

uiVars == <<applicationId, isRevoking, error, awaiting, revokeDialogOpen,
            secretDialogOpen, newClientSecret, errorSnackbar, secretVars,
            lastOp, calls, output>>

vars == <<wfVars, uiVars>>

InitWorkflow ==
  /\ server \in [AppIds -> UNION {InitialRecords(a) : a \in AppIds}]
  /\ \A a \in AppIds : server[a] \in InitialRecords(a)
  /\ server["a2"] = WithInbound(BaseRecord("a2"), <<OAuth2Entry("old")>>)
  /\ echoSecrets \in BOOLEAN
  /\ pc = [i \in Inv |-> "idle"]
  /\ variables = [i \in Inv |-> ""]
  /\ currentApplication = [i \in Inv |-> Undefined]
  /\ mutationSecret = [i \in Inv |-> ""]
  /\ updateRequest = [i \in Inv |-> Undefined]
  /\ data = [i \in Inv |-> Undefined]
  /\ mutationError = [i \in Inv |-> ""]
  /\ httpLog = [i \in Inv |-> <<>>]
  /\ applied = [i \in Inv |-> FALSE]
  /\ invalidated = [i \in Inv |-> <<>>]

\* http.request({url, method, ...}) dispatched by invocation i
Request(method, a, body) ==
  [method |-> method, id |-> a, body |-> body, outcome |-> "pending"]

Settle(log, outcome) == [log EXCEPT ![Len(log)].outcome = outcome]

\* mutate({applicationId}): mutationFn starts and awaits the GET
Mutate(i, a) ==
  /\ pc[i] = "idle"
  /\ \A j \in Inv : j < i => pc[j] # "idle"
  /\ a = "a1" \/ i = 1
  /\ pc' = [pc EXCEPT ![i] = "get"]
  /\ variables' = [variables EXCEPT ![i] = a]
  /\ httpLog' = [httpLog EXCEPT ![i] = Append(@, Request("GET", a, Undefined))]
  /\ UNCHANGED <<uiVars, echoSecrets>>
  /\ UNCHANGED <<server, currentApplication, mutationSecret, updateRequest,
                 data, mutationError, applied, invalidated>>

\* a GetOk that builds on the record an earlier, failed invocation fetched
GetOkReusesEarlier(i, secret) ==
  /\ pc[i] = "get"
  /\ LET earlier == {j \in Inv : /\ j < i
                                 /\ variables[j] = variables[i]
                                 /\ pc[j] = "error"
                                 /\ Len(httpLog[j]) = 2}
         fetched == IF earlier = {} THEN server[variables[i]]
                    ELSE currentApplication[CHOOSE j \in earlier : TRUE]
         request == InjectSecret(toUpdateRequest(fetched), secret)
     IN  /\ currentApplication' = [currentApplication EXCEPT ![i] = fetched]
         /\ mutationSecret' = [mutationSecret EXCEPT ![i] = secret]
         /\ updateRequest' = [updateRequest EXCEPT ![i] = request]
         /\ httpLog' = [httpLog EXCEPT
               ![i] = Append(Settle(@, "ok"), Request("PUT", variables[i], request))]
  /\ pc' = [pc EXCEPT ![i] = "put"]
  /\ UNCHANGED <<uiVars, echoSecrets>>
  /\ UNCHANGED <<server, variables, data, mutationError, applied, invalidated>>

\* the GET resolves: steps 2 and 3, then the PUT is dispatched and awaited
GetOk(i, secret) ==
  /\ pc[i] = "get"
  /\ LET fetched == server[variables[i]]
         request == InjectSecret(toUpdateRequest(fetched), secret)
     IN  /\ currentApplication' = [currentApplication EXCEPT ![i] = fetched]
         /\ mutationSecret' = [mutationSecret EXCEPT ![i] = secret]
         /\ updateRequest' = [updateRequest EXCEPT ![i] = request]
         /\ httpLog' = [httpLog EXCEPT
               ![i] = Append(Settle(@, "ok"), Request("PUT", variables[i], request))]
  /\ pc' = [pc EXCEPT ![i] = "put"]
  /\ UNCHANGED <<uiVars, echoSecrets>>
  /\ UNCHANGED <<server, variables, data, mutationError, applied, invalidated>>

\* a GET failure that is caught and followed by the PUT of an empty request
GetFailThenPut(i, e) ==
  /\ pc[i] = "get"
  /\ \E secret \in Secrets :
       LET request == InjectSecret(toUpdateRequest([id |-> variables[i]]), secret)
       IN  /\ mutationSecret' = [mutationSecret EXCEPT ![i] = secret]
           /\ updateRequest' = [updateRequest EXCEPT ![i] = request]
           /\ httpLog' = [httpLog EXCEPT
                 ![i] = Append(Settle(@, e), Request("PUT", variables[i], request))]
  /\ pc' = [pc EXCEPT ![i] = "put"]
  /\ UNCHANGED <<uiVars, echoSecrets>>
  /\ UNCHANGED <<server, variables, currentApplication, data, mutationError,
                 applied, invalidated>>

\* the GET rejects: the await throws out of mutationFn
GetFail(i, e) ==
  /\ pc[i] = "get"
  /\ httpLog' = [httpLog EXCEPT ![i] = Settle(@, e)]
  /\ mutationError' = [mutationError EXCEPT ![i] = e]
  /\ pc' = [pc EXCEPT ![i] = "error"]
  /\ UNCHANGED <<uiVars, echoSecrets>>
  /\ UNCHANGED <<server, variables, currentApplication, mutationSecret,
                 updateRequest, data, applied, invalidated>>

\* a PutOk that returns the secret found in the server's response
PutOkSecretFromResponse(i) ==
  /\ pc[i] = "put"
  /\ LET a == variables[i]
         stored == ServerReplace(server[a], httpLog[i][Len(httpLog[i])].body)
     IN  /\ server' = [server EXCEPT ![a] = stored]
         /\ data' = [data EXCEPT ![i] =
                       [application |-> ServerView(stored, echoSecrets),
                        clientSecret |-> OAuth2Secret(ServerView(stored, echoSecrets))]]
  /\ applied' = [applied EXCEPT ![i] = TRUE]
  /\ httpLog' = [httpLog EXCEPT ![i] = Settle(@, "ok")]
  /\ pc' = [pc EXCEPT ![i] = "onSuccess"]
  /\ UNCHANGED <<uiVars, echoSecrets>>
  /\ UNCHANGED <<variables, currentApplication, mutationSecret, updateRequest,
                 mutationError, invalidated>>

\* a PutOk whose code throws after the PUT resolved
PutOkThenThrow(i) ==
  /\ pc[i] = "put"
  /\ LET a == variables[i]
         stored == ServerReplace(server[a], httpLog[i][Len(httpLog[i])].body)
     IN  server' = [server EXCEPT ![a] = stored]
  /\ applied' = [applied EXCEPT ![i] = TRUE]
  /\ httpLog' = [httpLog EXCEPT ![i] = Settle(@, "ok")]
  /\ mutationError' = [mutationError EXCEPT ![i] = "TypeError"]
  /\ pc' = [pc EXCEPT ![i] = "error"]
  /\ UNCHANGED <<uiVars, echoSecrets>>
  /\ UNCHANGED <<variables, currentApplication, mutationSecret, updateRequest,
                 data, invalidated>>

\* a PutOk whose replacement is dropped when the record was replaced already
PutOkFirstWins(i) ==
  /\ pc[i] = "put"
  /\ LET a == variables[i]
         stored == IF \E j \in Inv : j # i /\ variables[j] = a /\ applied[j]
                   THEN server[a]
                   ELSE ServerReplace(server[a], httpLog[i][Len(httpLog[i])].body)
     IN  /\ server' = [server EXCEPT ![a] = stored]
         /\ data' = [data EXCEPT ![i] =
                       [application |-> ServerView(stored, echoSecrets),
                        clientSecret |-> mutationSecret[i]]]
  /\ applied' = [applied EXCEPT ![i] = TRUE]
  /\ httpLog' = [httpLog EXCEPT ![i] = Settle(@, "ok")]
  /\ pc' = [pc EXCEPT ![i] = "onSuccess"]
  /\ UNCHANGED <<uiVars, echoSecrets>>
  /\ UNCHANGED <<variables, currentApplication, mutationSecret, updateRequest,
                 mutationError, invalidated>>

\* the PUT resolves: the server replaced the record; mutationFn returns
PutOk(i) ==
  /\ pc[i] = "put"
  /\ LET a == variables[i]
         stored == ServerReplace(server[a], httpLog[i][Len(httpLog[i])].body)
     IN  /\ server' = [server EXCEPT ![a] = stored]
         /\ data' = [data EXCEPT ![i] =
                       [application |-> ServerView(stored, echoSecrets),
                        clientSecret |-> mutationSecret[i]]]
  /\ applied' = [applied EXCEPT ![i] = TRUE]
  /\ httpLog' = [httpLog EXCEPT ![i] = Settle(@, "ok")]
  /\ pc' = [pc EXCEPT ![i] = "onSuccess"]
  /\ UNCHANGED <<uiVars, echoSecrets>>
  /\ UNCHANGED <<variables, currentApplication, mutationSecret, updateRequest,
                 mutationError, invalidated>>

\* a PutFail that invalidates the cache (onSettled in place of onSuccess)
PutFailInvalidates(i, e) ==
  /\ pc[i] = "put"
  /\ httpLog' = [httpLog EXCEPT ![i] = Settle(@, e)]
  /\ mutationError' = [mutationError EXCEPT ![i] = e]
  /\ invalidated' = [invalidated EXCEPT
                       ![i] = <<[key |-> ApplicationKey(variables[i]), rejected |-> FALSE],
                                [key |-> ApplicationsKey, rejected |-> FALSE]>>]
  /\ pc' = [pc EXCEPT ![i] = "error"]
  /\ UNCHANGED <<uiVars, echoSecrets>>
  /\ UNCHANGED <<server, variables, currentApplication, mutationSecret,
                 updateRequest, data, applied>>

\* a PutFail that wraps the error in one of its own
PutFailWraps(i, e) ==
  /\ pc[i] = "put"
  /\ httpLog' = [httpLog EXCEPT ![i] = Settle(@, e)]
  /\ mutationError' = [mutationError EXCEPT ![i] = "RevokeFailed"]
  /\ pc' = [pc EXCEPT ![i] = "error"]
  /\ UNCHANGED <<uiVars, echoSecrets>>
  /\ UNCHANGED <<server, variables, currentApplication, mutationSecret,
                 updateRequest, data, applied, invalidated>>

\* the PUT rejects: the write did not apply; the await throws out of mutationFn
PutFail(i, e) ==
  /\ pc[i] = "put"
  /\ httpLog' = [httpLog EXCEPT ![i] = Settle(@, e)]
  /\ mutationError' = [mutationError EXCEPT ![i] = e]
  /\ pc' = [pc EXCEPT ![i] = "error"]
  /\ UNCHANGED <<uiVars, echoSecrets>>
  /\ UNCHANGED <<server, variables, currentApplication, mutationSecret,
                 updateRequest, data, applied, invalidated>>

\* an onSuccess that awaits the invalidations without catching their rejection
OnSuccessAwaits(i, r1, r2) ==
  /\ pc[i] = "onSuccess"
  /\ invalidated' = [invalidated EXCEPT
       ![i] = IF r1 THEN <<[key |-> ApplicationKey(variables[i]), rejected |-> r1]>>
              ELSE <<[key |-> ApplicationKey(variables[i]), rejected |-> r1],
                     [key |-> ApplicationsKey, rejected |-> r2]>>]
  /\ pc' = [pc EXCEPT ![i] = IF r1 \/ r2 THEN "error" ELSE "success"]
  /\ mutationError' = [mutationError EXCEPT
       ![i] = IF r1 \/ r2 THEN "InvalidationError" ELSE @]
  /\ UNCHANGED <<uiVars, echoSecrets>>
  /\ UNCHANGED <<server, variables, currentApplication, mutationSecret,
                 updateRequest, data, httpLog, applied>>

\* onSuccess(_data, variables): two invalidateQueries calls, each with its own
\* .catch(() => {}); r1, r2 say whether the returned promise rejects
OnSuccess(i, r1, r2) ==
  /\ pc[i] = "onSuccess"
  /\ invalidated' = [invalidated EXCEPT
                       ![i] = <<[key |-> ApplicationKey(variables[i]), rejected |-> r1],
                                [key |-> ApplicationsKey, rejected |-> r2]>>]
  /\ pc' = [pc EXCEPT ![i] = "success"]
  /\ UNCHANGED <<uiVars, echoSecrets>>
  /\ UNCHANGED <<server, variables, currentApplication, mutationSecret,
                 updateRequest, data, mutationError, httpLog, applied>>

NextWorkflow ==
  \/ \E i \in Inv, a \in AppIds : Mutate(i, a)
  \/ \E i \in Inv, s \in Secrets : GetOk(i, s)
  \/ \E i \in Inv, e \in HttpErrors : GetFail(i, e)
  \/ \E i \in Inv : PutOk(i)
  \/ \E i \in Inv, e \in HttpErrors : PutFail(i, e)
  \/ \E i \in Inv, r1 \in BOOLEAN, r2 \in BOOLEAN : OnSuccess(i, r1, r2)

\* ------------------------------------------------------------------------
\* ApplicationRevokeDialog inside EditGeneralSettings
\* ------------------------------------------------------------------------

\* useState<string | null>(null)
Null == "<null>"

\* new Error('Failed to revoke application. Please try again.')
RevokeFailure ==
  [instanceOfError |-> TRUE,
   message |-> "Failed to revoke application. Please try again."]

\* t(key): the translation of a key, an external collaborator
T(key) == key

\* err instanceof Error ? err.message : t('applications:revoke.dialog.error')
ErrorMessage(err) ==
  IF err.instanceOfError THEN err.message ELSE T("applications:revoke.dialog.error")

\* one callback invocation made by the dialog
Call(cb, arg) == [cb |-> cb, arg |-> arg]

\* one line written to the logger or the console
Out(channel, payload) == [channel |-> channel, payload |-> payload]

\* the banner printed around the secret: '='.repeat(60)
BannerWidth == 60

Banner == [repeat |-> "=", times |-> BannerWidth]

ApplicationIdProps == {"a1", ""}

UIInit ==
  /\ applicationId \in ApplicationIdProps
  /\ isRevoking = FALSE
  /\ error = Null
  /\ awaiting = 0
  /\ revokeDialogOpen = FALSE
  /\ secretDialogOpen = FALSE
  /\ newClientSecret = ""
  /\ errorSnackbar = [open |-> FALSE, message |-> ""]
  /\ copied = FALSE
  /\ showSecret = FALSE
  /\ clipboardWrites = [t \in Secrets |-> 0]
  /\ copyTimers = 0
  /\ clipboard = ""
  /\ lastOp = "init"
  /\ calls = <<>>
  /\ output = <<>>

\* EditGeneralSettings: onClose={() => setRevokeDialogOpen(false)}
PanelOnClose == revokeDialogOpen' = FALSE

\* EditGeneralSettings.handleRevokeSuccess
handleRevokeSuccess(clientSecret) ==
  /\ newClientSecret' = clientSecret
  /\ secretDialogOpen' = TRUE

\* EditGeneralSettings.handleRevokeError
handleRevokeError(message) ==
  errorSnackbar' = [open |-> TRUE, message |-> message]

\* EditGeneralSettings.handleRevokeClick, from the danger zone button; the page
\* behind an open modal dialog does not receive the click
handleRevokeClick ==
  /\ ~revokeDialogOpen /\ ~secretDialogOpen
  /\ revokeDialogOpen' = TRUE
  /\ lastOp' = "handleRevokeClick"
  /\ calls' = <<>>
  /\ output' = <<>>
  /\ UNCHANGED wfVars
  /\ UNCHANGED secretVars
  /\ UNCHANGED <<applicationId, isRevoking, error, awaiting, secretDialogOpen,
                 newClientSecret, errorSnackbar>>

\* <Button onClick={handleCancel} disabled={isRevoking}>
CancelDisabled == isRevoking

\* <Button onClick={() => handleConfirm()...} disabled={isRevoking}>
ConfirmDisabled == isRevoking

\* a handleCancel that also leaves the revoking state
handleCancelResetsRevoking ==
  /\ error' = Null
  /\ isRevoking' = FALSE
  /\ PanelOnClose
  /\ calls' = <<Call("onClose", "")>>
  /\ output' = <<>>
  /\ UNCHANGED wfVars
  /\ UNCHANGED secretVars
  /\ UNCHANGED <<applicationId, awaiting, secretDialogOpen,
                 newClientSecret, errorSnackbar>>

\* a handleCancel that leaves the error message in place
handleCancelKeepsError ==
  /\ PanelOnClose
  /\ calls' = <<Call("onClose", "")>>
  /\ output' = <<>>
  /\ UNCHANGED wfVars
  /\ UNCHANGED secretVars
  /\ UNCHANGED <<applicationId, isRevoking, error, awaiting, secretDialogOpen,
                 newClientSecret, errorSnackbar>>

\* ApplicationRevokeDialog.handleCancel: setError(null); onClose()
handleCancel ==
  /\ error' = Null
  /\ PanelOnClose
  /\ calls' = <<Call("onClose", "")>>
  /\ output' = <<>>
  /\ UNCHANGED wfVars
  /\ UNCHANGED secretVars
  /\ UNCHANGED <<applicationId, isRevoking, awaiting, secretDialogOpen,
                 newClientSecret, errorSnackbar>>

\* the Cancel button
CancelClick ==
  /\ revokeDialogOpen /\ ~CancelDisabled
  /\ handleCancel
  /\ lastOp' = "CancelClick"

\* Escape or backdrop click: <Dialog open={open} onClose={handleCancel}>
Dismiss ==
  /\ revokeDialogOpen
  /\ handleCancel
  /\ lastOp' = "Dismiss"

\* a handleConfirm without the early return for an absent application id
ConfirmClickAnyId ==
  /\ revokeDialogOpen /\ ~ConfirmDisabled
  /\ lastOp' = "ConfirmClick"
  /\ calls' = <<>>
  /\ isRevoking' = TRUE
  /\ error' = Null
  /\ awaiting' = awaiting + 1
  /\ output' = <<Out("logger.info", applicationId)>>
  /\ UNCHANGED wfVars
  /\ UNCHANGED secretVars
  /\ UNCHANGED <<applicationId, revokeDialogOpen, secretDialogOpen,
                 newClientSecret, errorSnackbar>>

\* a handleConfirm that leaves the previous error message in place
ConfirmClickKeepsError ==
  /\ revokeDialogOpen /\ ~ConfirmDisabled
  /\ lastOp' = "ConfirmClick"
  /\ calls' = <<>>
  /\ IF applicationId = ""
     THEN /\ output' = <<>>
          /\ UNCHANGED <<isRevoking, error, awaiting>>
     ELSE /\ isRevoking' = TRUE
          /\ error' = error
          /\ awaiting' = awaiting + 1
          /\ output' = <<Out("logger.info", applicationId)>>
  /\ UNCHANGED wfVars
  /\ UNCHANGED secretVars
  /\ UNCHANGED <<applicationId, revokeDialogOpen, secretDialogOpen,
                 newClientSecret, errorSnackbar>>

\* the Revoke button calls handleConfirm, which runs up
\* to its await: if (!applicationId) return; setIsRevoking(true); setError(null);
\* logger.info(...); await new Promise(... setTimeout(resolve, 1500))
ConfirmClick ==
  /\ revokeDialogOpen /\ ~ConfirmDisabled
  /\ lastOp' = "ConfirmClick"
  /\ calls' = <<>>
  /\ IF applicationId = ""
     THEN /\ output' = <<>>
          /\ UNCHANGED <<isRevoking, error, awaiting>>
     ELSE /\ isRevoking' = TRUE
          /\ error' = Null
          /\ awaiting' = awaiting + 1
          /\ output' = <<Out("logger.info", applicationId)>>
  /\ UNCHANGED wfVars
  /\ UNCHANGED secretVars
  /\ UNCHANGED <<applicationId, revokeDialogOpen, secretDialogOpen,
                 newClientSecret, errorSnackbar>>

\* a success branch that leaves the confirmation dialog open (no onClose())
ConfirmSucceedsKeepsOpen(secret) ==
  /\ awaiting > 0
  /\ awaiting' = awaiting - 1
  /\ output' = <<Out("logger.info", secret), Out("console.log", Banner),
                 Out("console.log", "NEW CLIENT SECRET (for demonstration):"),
                 Out("console.log", secret), Out("console.log", Banner)>>
  /\ isRevoking' = FALSE
  /\ handleRevokeSuccess(secret)
  /\ calls' = <<Call("onSuccess", secret)>>
  /\ lastOp' = "ConfirmSucceeds"
  /\ UNCHANGED wfVars
  /\ UNCHANGED secretVars
  /\ UNCHANGED <<applicationId, error, errorSnackbar, revokeDialogOpen>>

\* a success branch that falls through into the catch block
ConfirmSucceedsThenErrors(secret) ==
  /\ awaiting > 0
  /\ awaiting' = awaiting - 1
  /\ output' = <<Out("logger.info", secret), Out("console.log", Banner),
                 Out("console.log", "NEW CLIENT SECRET (for demonstration):"),
                 Out("console.log", secret), Out("console.log", Banner),
                 Out("logger.error", ErrorMessage(RevokeFailure))>>
  /\ isRevoking' = FALSE
  /\ error' = ErrorMessage(RevokeFailure)
  /\ PanelOnClose
  /\ handleRevokeSuccess(secret)
  /\ handleRevokeError(ErrorMessage(RevokeFailure))
  /\ calls' = <<Call("onClose", ""), Call("onSuccess", secret),
                Call("onError", ErrorMessage(RevokeFailure))>>
  /\ lastOp' = "ConfirmSucceeds"
  /\ UNCHANGED wfVars
  /\ UNCHANGED secretVars
  /\ UNCHANGED applicationId

\* handleConfirm resumes after the delay with shouldSucceed: the secret is
\* generated, logged and printed; setIsRevoking(false); onClose(); onSuccess(...)
ConfirmSucceeds(secret) ==
  /\ awaiting > 0
  /\ awaiting' = awaiting - 1
  /\ output' = <<Out("logger.info", secret), Out("console.log", Banner),
                 Out("console.log", "NEW CLIENT SECRET (for demonstration):"),
                 Out("console.log", secret), Out("console.log", Banner)>>
  /\ isRevoking' = FALSE
  /\ PanelOnClose
  /\ handleRevokeSuccess(secret)
  /\ calls' = <<Call("onClose", ""), Call("onSuccess", secret)>>
  /\ lastOp' = "ConfirmSucceeds"
  /\ UNCHANGED wfVars
  /\ UNCHANGED secretVars
  /\ UNCHANGED <<applicationId, error, errorSnackbar>>

\* a catch branch without setIsRevoking(false)
ConfirmFailsStaysPending ==
  /\ awaiting > 0
  /\ awaiting' = awaiting - 1
  /\ LET errorMessage == ErrorMessage(RevokeFailure)
     IN  /\ output' = <<Out("logger.error", errorMessage)>>
         /\ error' = errorMessage
         /\ isRevoking' = isRevoking
         /\ handleRevokeError(errorMessage)
         /\ calls' = <<Call("onError", errorMessage)>>
  /\ lastOp' = "ConfirmFails"
  /\ UNCHANGED wfVars
  /\ UNCHANGED secretVars
  /\ UNCHANGED <<applicationId, revokeDialogOpen, secretDialogOpen, newClientSecret>>

\* a catch branch that also closes the dialog
ConfirmFailsCloses ==
  /\ awaiting > 0
  /\ awaiting' = awaiting - 1
  /\ LET errorMessage == ErrorMessage(RevokeFailure)
     IN  /\ output' = <<Out("logger.error", errorMessage)>>
         /\ error' = errorMessage
         /\ isRevoking' = FALSE
         /\ PanelOnClose
         /\ handleRevokeError(errorMessage)
         /\ calls' = <<Call("onClose", ""), Call("onError", errorMessage)>>
  /\ lastOp' = "ConfirmFails"
  /\ UNCHANGED wfVars
  /\ UNCHANGED secretVars
  /\ UNCHANGED <<applicationId, secretDialogOpen, newClientSecret>>

\* handleConfirm resumes after the delay with !shouldSucceed: the throw lands in
\* the catch: logger.error; setError(errorMessage); setIsRevoking(false); onError
ConfirmFails ==
  /\ awaiting > 0
  /\ awaiting' = awaiting - 1
  /\ LET errorMessage == ErrorMessage(RevokeFailure)
     IN  /\ output' = <<Out("logger.error", errorMessage)>>
         /\ error' = errorMessage
         /\ isRevoking' = FALSE
         /\ handleRevokeError(errorMessage)
         /\ calls' = <<Call("onError", errorMessage)>>
  /\ lastOp' = "ConfirmFails"
  /\ UNCHANGED wfVars
  /\ UNCHANGED secretVars
  /\ UNCHANGED <<applicationId, revokeDialogOpen, secretDialogOpen, newClientSecret>>

\* a handleSecretDialogClose that keeps the secret it holds
handleSecretDialogCloseKeepsSecret ==
  /\ secretDialogOpen' = FALSE
  /\ newClientSecret' = newClientSecret

\* EditGeneralSettings.handleSecretDialogClose, the disclosure dialog's onClose
handleSecretDialogClose ==
  /\ secretDialogOpen' = FALSE
  /\ newClientSecret' = ""

\* a handleClose that does not reset the visibility
handleCloseKeepsVisibility ==
  /\ secretDialogOpen
  /\ copied' = FALSE
  /\ showSecret' = showSecret
  /\ handleSecretDialogClose
  /\ lastOp' = "handleClose"
  /\ calls' = <<Call("onClose", "")>>
  /\ output' = <<>>
  /\ UNCHANGED wfVars
  /\ UNCHANGED <<applicationId, isRevoking, error, awaiting, revokeDialogOpen,
                 errorSnackbar, clipboardWrites, copyTimers, clipboard>>

\* ClientSecretSuccessDialog.handleClose (Done button, Escape, backdrop):
\* setCopied(false); setShowSecret(false); onClose()
handleClose ==
  /\ secretDialogOpen
  /\ copied' = FALSE
  /\ showSecret' = FALSE
  /\ handleSecretDialogClose
  /\ lastOp' = "handleClose"
  /\ calls' = <<Call("onClose", "")>>
  /\ output' = <<>>
  /\ UNCHANGED wfVars
  /\ UNCHANGED <<applicationId, isRevoking, error, awaiting, revokeDialogOpen,
                 errorSnackbar, clipboardWrites, copyTimers, clipboard>>

\* ClientSecretSuccessDialog.handleToggleVisibility
handleToggleVisibility ==
  /\ secretDialogOpen
  /\ showSecret' = ~showSecret
  /\ lastOp' = "handleToggleVisibility"
  /\ calls' = <<>>
  /\ output' = <<>>
  /\ UNCHANGED wfVars
  /\ UNCHANGED <<applicationId, isRevoking, error, awaiting, revokeDialogOpen,
                 secretDialogOpen, newClientSecret, errorSnackbar, copied,
                 clipboardWrites, copyTimers, clipboard>>

\* writes and timers the model lets be outstanding at once
Outstanding == copyTimers + clipboardWrites["s1"] + clipboardWrites["s2"]

\* a handleCopy that writes what the field displays: nothing while masked
handleCopyDisplayed ==
  /\ Outstanding < MaxOutstanding
  /\ clipboardWrites' = [clipboardWrites EXCEPT ![newClientSecret] = @ + 1]
  /\ calls' = <<Call("writeText", IF showSecret THEN newClientSecret ELSE "")>>
  /\ output' = <<>>
  /\ UNCHANGED wfVars
  /\ UNCHANGED <<applicationId, isRevoking, error, awaiting, revokeDialogOpen,
                 secretDialogOpen, newClientSecret, errorSnackbar, copied,
                 showSecret, copyTimers, clipboard>>

\* ClientSecretSuccessDialog.handleCopy up to its await:
\* await navigator.clipboard.writeText(clientSecret)
handleCopy ==
  /\ Outstanding < MaxOutstanding
  /\ clipboardWrites' = [clipboardWrites EXCEPT ![newClientSecret] = @ + 1]
  /\ calls' = <<Call("writeText", newClientSecret)>>
  /\ output' = <<>>
  /\ UNCHANGED wfVars
  /\ UNCHANGED <<applicationId, isRevoking, error, awaiting, revokeDialogOpen,
                 secretDialogOpen, newClientSecret, errorSnackbar, copied,
                 showSecret, copyTimers, clipboard>>

\* the inline copy icon of the text field
CopyIconClick ==
  /\ secretDialogOpen
  /\ handleCopy
  /\ lastOp' = "CopyIconClick"

\* the primary copy button: disabled={copied}
CopyButtonClick ==
  /\ secretDialogOpen /\ ~copied
  /\ handleCopy
  /\ lastOp' = "CopyButtonClick"

\* the clipboard write resolves: setCopied(true); setTimeout(..., 2000)
ClipboardResolves(text) ==
  /\ clipboardWrites[text] > 0
  /\ clipboardWrites' = [clipboardWrites EXCEPT ![text] = @ - 1]
  /\ clipboard' = text
  /\ copied' = TRUE
  /\ copyTimers' = copyTimers + 1
  /\ lastOp' = "ClipboardResolves"
  /\ calls' = <<>>
  /\ output' = <<>>
  /\ UNCHANGED wfVars
  /\ UNCHANGED <<applicationId, isRevoking, error, awaiting, revokeDialogOpen,
                 secretDialogOpen, newClientSecret, errorSnackbar, showSecret>>

\* a handleCopy that sets the copied flag and its timer in a finally block
ClipboardRejectsSetsCopied(text) ==
  /\ clipboardWrites[text] > 0
  /\ clipboardWrites' = [clipboardWrites EXCEPT ![text] = @ - 1]
  /\ copied' = TRUE
  /\ copyTimers' = copyTimers + 1
  /\ lastOp' = "ClipboardRejects"
  /\ calls' = <<>>
  /\ output' = <<>>
  /\ UNCHANGED wfVars
  /\ UNCHANGED <<applicationId, isRevoking, error, awaiting, revokeDialogOpen,
                 secretDialogOpen, newClientSecret, errorSnackbar,
                 showSecret, clipboard>>

\* the clipboard write rejects: catch { } does nothing
ClipboardRejects(text) ==
  /\ clipboardWrites[text] > 0
  /\ clipboardWrites' = [clipboardWrites EXCEPT ![text] = @ - 1]
  /\ lastOp' = "ClipboardRejects"
  /\ calls' = <<>>
  /\ output' = <<>>
  /\ UNCHANGED wfVars
  /\ UNCHANGED <<applicationId, isRevoking, error, awaiting, revokeDialogOpen,
                 secretDialogOpen, newClientSecret, errorSnackbar, copied,
                 showSecret, copyTimers, clipboard>>

\* a copy timer fires after its 2000 ms: setCopied(false)
CopyTimerFires ==
  /\ copyTimers > 0
  /\ copyTimers' = copyTimers - 1
  /\ copied' = FALSE
  /\ lastOp' = "CopyTimerFires"
  /\ calls' = <<>>
  /\ output' = <<>>
  /\ UNCHANGED wfVars
  /\ UNCHANGED <<applicationId, isRevoking, error, awaiting, revokeDialogOpen,
                 secretDialogOpen, newClientSecret, errorSnackbar, showSecret,
                 clipboardWrites, clipboard>>

\* a handleSnackbarClose that also clears the secret the panel holds
handleSnackbarCloseClearsSecret ==
  /\ errorSnackbar.open
  /\ errorSnackbar' = [errorSnackbar EXCEPT !.open = FALSE]
  /\ newClientSecret' = ""
  /\ lastOp' = "handleSnackbarClose"
  /\ calls' = <<>>
  /\ output' = <<>>
  /\ UNCHANGED wfVars
  /\ UNCHANGED secretVars
  /\ UNCHANGED <<applicationId, isRevoking, error, awaiting, revokeDialogOpen,
                 secretDialogOpen>>

\* EditGeneralSettings.handleSnackbarClose (close button or autoHideDuration)
handleSnackbarClose ==
  /\ errorSnackbar.open
  /\ errorSnackbar' = [errorSnackbar EXCEPT !.open = FALSE]
  /\ lastOp' = "handleSnackbarClose"
  /\ calls' = <<>>
  /\ output' = <<>>
  /\ UNCHANGED wfVars
  /\ UNCHANGED secretVars
  /\ UNCHANGED <<applicationId, isRevoking, error, awaiting, revokeDialogOpen,
                 secretDialogOpen, newClientSecret>>

NextUI ==
  \/ handleRevokeClick
  \/ CancelClick
  \/ Dismiss
  \/ ConfirmClick
  \/ \E s \in Secrets : ConfirmSucceeds(s)
  \/ ConfirmFails
  \/ handleSnackbarClose
  \/ handleClose
  \/ handleToggleVisibility
  \/ CopyIconClick
  \/ CopyButtonClick
  \/ \E t \in Secrets : ClipboardResolves(t)
  \/ \E t \in Secrets : ClipboardRejects(t)
  \/ CopyTimerFires

\* ------------------------------------------------------------------------
\* Specifications
\* ------------------------------------------------------------------------

Init == InitWorkflow /\ UIInit

Next == NextWorkflow \/ NextUI

\* the console as a whole
Spec == Init /\ [][Next]_vars

\* the mutation hook invoked directly by its callers
InitHook == InitWorkflow /\ UIInit /\ applicationId = "a1"

SpecWorkflow == InitHook /\ [][NextWorkflow]_vars

\* another client of the server renames application a: a replacement of its
\* own, built from the record as it stands
OtherWriter(a) ==
  /\ server[a].name = "app"
  /\ server' = [server EXCEPT
       ![a] = ServerReplace(@, [toUpdateRequest(@) EXCEPT !.name = "renamed"])]
  /\ UNCHANGED <<uiVars, echoSecrets>>
  /\ UNCHANGED <<pc, variables, currentApplication, mutationSecret, updateRequest,
                 data, mutationError, httpLog, applied, invalidated>>

NextRetry ==
  \/ NextWorkflow
  \/ OtherWriter("a1")

InitRetry ==
  /\ InitHook
  /\ echoSecrets = FALSE
  /\ server["a1"] = WithInbound(BaseRecord("a1"), <<OtherEntry, OAuth2Entry("old")>>)

\* the mutation hook beside another writer of the same record
SpecRetry == InitRetry /\ [][NextRetry]_vars

\* the settings panel with its confirmation dialog
InitPanel ==
  /\ InitWorkflow
  /\ UIInit
  /\ echoSecrets = FALSE
  /\ server["a1"] = WithInbound(BaseRecord("a1"), <<OAuth2Entry("old")>>)

SpecDialog == InitPanel /\ [][NextUI]_vars

\* a suspended handleConfirm resumes, on either branch
Completion == ConfirmFails \/ \E s \in Secrets : ConfirmSucceeds(s)

\* the panel when every awaited delay settles
SpecDialogFair == SpecDialog /\ WF_vars(Completion)

\* ------------------------------------------------------------------------
\* Properties of the mutation hook (checked under SpecWorkflow)
\* ------------------------------------------------------------------------

Gets(i) == {k \in 1..Len(httpLog[i]) : httpLog[i][k].method = "GET"}

Puts(i) == {k \in 1..Len(httpLog[i]) : httpLog[i][k].method = "PUT"}

Failed(i, k) == httpLog[i][k].outcome \in HttpErrors

\* C1: an invocation dispatches at most one GET and at most one PUT; its PUT
\* is dispatched right after its GET for the same application id resolved, and
\* an invocation whose GET failed has dispatched no PUT.
C1_PutOnlyAfterGet ==
  \A i \in Inv :
    /\ Cardinality(Gets(i)) <= 1
    /\ Cardinality(Puts(i)) <= 1
    /\ \A k \in Puts(i) :
         /\ k > 1
         /\ httpLog[i][k - 1].method = "GET"
         /\ httpLog[i][k - 1].outcome = "ok"
         /\ httpLog[i][k - 1].id = httpLog[i][k].id
         /\ httpLog[i][k].id = variables[i]
    /\ (\E k \in Gets(i) : Failed(i, k)) => Puts(i) = {}

\* one invocation has its PUT in flight after its GET, another stopped at a failed GET
C1_Witness ==
  \E i, j \in Inv :
    /\ pc[i] = "put" /\ Puts(i) # {}
    /\ pc[j] = "error" /\ Gets(j) # {} /\ Failed(j, 1)

\* C2: when the fetched record has an oauth2 entry, a successful revoke returns
\* the secret generated in that invocation, the PUT body carries that secret as
\* the oauth2 client_secret, whatever secret the server's response shows.
C2_ReturnedSecretIsGenerated ==
  \A i \in Inv :
    (pc[i] \in {"onSuccess", "success"} /\ HasOAuth2(currentApplication[i])) =>
      /\ mutationSecret[i] \in Secrets
      /\ data[i].clientSecret = mutationSecret[i]
      /\ \A k \in Puts(i) : OAuth2Secret(httpLog[i][k].body) = mutationSecret[i]
      /\ Puts(i) # {}

\* a successful revoke whose response does not show the generated secret
C2_Witness ==
  \E i \in Inv :
    /\ pc[i] = "success"
    /\ HasOAuth2(currentApplication[i])
    /\ OAuth2Secret(currentApplication[i]) = "old"
    /\ OAuth2Secret(data[i].application) # data[i].clientSecret

KeysInvalidated(i, key) ==
  {k \in 1..Len(invalidated[i]) : invalidated[i][k].key = key}

\* C4: a successful revoke of X has invalidated ("application", X) once and
\* ("applications") once and nothing else, after its PUT succeeded; an
\* invocation that has not succeeded, a failed one included, has invalidated
\* nothing.
C4_InvalidatedOnceOnSuccess ==
  \A i \in Inv :
    /\ pc[i] = "success" =>
         /\ Cardinality(KeysInvalidated(i, ApplicationKey(variables[i]))) = 1
         /\ Cardinality(KeysInvalidated(i, ApplicationsKey)) = 1
         /\ Len(invalidated[i]) = 2
    /\ invalidated[i] # <<>> =>
         /\ applied[i]
         /\ \E k \in Puts(i) : httpLog[i][k].outcome = "ok"
    /\ pc[i] = "error" => invalidated[i] = <<>>

\* a revoke of a2 that succeeded next to one that failed at its PUT
C4_Witness ==
  \E i, j \in Inv :
    /\ pc[i] = "success" /\ variables[i] = "a2"
    /\ pc[j] = "error" /\ Puts(j) # {}

\* C5: an invocation that ended in error ended with the error of its last
\* request, that request is the only failed one, nothing was dispatched after
\* it, no request was repeated, and the invocation stays as it ended.
C5_ErrorEndsInvocation ==
  /\ [](\A i \in Inv :
          pc[i] = "error" =>
            /\ httpLog[i] # <<>>
            /\ Failed(i, Len(httpLog[i]))
            /\ mutationError[i] = httpLog[i][Len(httpLog[i])].outcome
            /\ \A k \in 1..(Len(httpLog[i]) - 1) : httpLog[i][k].outcome = "ok"
            /\ Cardinality(Gets(i)) <= 1 /\ Cardinality(Puts(i)) <= 1)
  /\ [][\A i \in Inv :
          pc[i] = "error" =>
            /\ pc'[i] = "error"
            /\ httpLog'[i] = httpLog[i]
            /\ mutationError'[i] = mutationError[i]]_vars

\* both kinds of failure, each with a different error
C5_Witness ==
  \E i, j \in Inv :
    /\ pc[i] = "error" /\ Puts(i) = {} /\ mutationError[i] = "Status500"
    /\ pc[j] = "error" /\ Puts(j) # {} /\ mutationError[j] = "NetworkError"

C7_InvalidationFailureSwallowed ==
  \A i \in Inv :
    /\ applied[i] =>
         /\ pc[i] \in {"onSuccess", "success"}
         /\ mutationError[i] = ""
         /\ DOMAIN data[i] = {"application", "clientSecret"}
    /\ (invalidated[i] # <<>> /\ invalidated[i][1].rejected) =>
         /\ Len(invalidated[i]) = 2
         /\ invalidated[i][2].key = ApplicationsKey
         /\ pc[i] = "success"

\* a successful revoke both of whose invalidations rejected
C7_Witness ==
  \E i \in Inv :
    /\ pc[i] = "success"
    /\ invalidated[i][1].rejected
    /\ invalidated[i][2].rejected

\* ------------------------------------------------------------------------
\* Properties of the confirmation dialog in the settings panel
\* (checked under SpecDialog)
\* ------------------------------------------------------------------------

\* invocation i of the mutation ran GET then PUT for application a, both
\* resolved, and returned the given secret
RevokedThroughHook(i, a, secret) ==
  /\ variables[i] = a
  /\ Len(httpLog[i]) = 2
  /\ httpLog[i][1].method = "GET" /\ httpLog[i][1].outcome = "ok"
  /\ httpLog[i][2].method = "PUT" /\ httpLog[i][2].outcome = "ok"
  /\ OAuth2Secret(httpLog[i][2].body) = secret
  /\ data[i].clientSecret = secret

\* C3: when a confirmed revocation has completed with success, the secret
\* handed to onSuccess is the one an invocation of the mutation hook returned
\* after its GET and its PUT for the dialog's application id.
C3_ConfirmRunsWorkflow ==
  lastOp = "ConfirmSucceeds" =>
    \E i \in Inv : RevokedThroughHook(i, applicationId, calls[Len(calls)].arg)

\* C8: at most one handleConfirm is suspended at its await, and while one is,
\* the cancel and the confirm button are disabled, the dialog open or not.
C8_OneRevocationInFlight ==
  /\ awaiting <= 1
  /\ awaiting > 0 => (CancelDisabled /\ ConfirmDisabled)

\* the dialog was dismissed while revoking and opened again before completion
C8_Witness ==
  /\ awaiting = 1
  /\ revokeDialogOpen
  /\ lastOp = "handleRevokeClick"

\* C9: the step in which a pending revocation fails ends the revoking state,
\* sets the error to the failure's message, calls onError once with it and no
\* other callback, and leaves the panel's dialog flags and held secret alone.
C9_FailureKeepsDialog ==
  [][lastOp' = "ConfirmFails" =>
       /\ ~isRevoking'
       /\ error' = RevokeFailure.message
       /\ calls' = <<Call("onError", RevokeFailure.message)>>
       /\ revokeDialogOpen' = revokeDialogOpen
       /\ secretDialogOpen' = secretDialogOpen
       /\ ~secretDialogOpen'
       /\ newClientSecret' = newClientSecret]_vars

\* a failed revocation with the confirmation dialog still open, showing the message
C9_Witness ==
  /\ lastOp = "ConfirmFails"
  /\ revokeDialogOpen
  /\ error = RevokeFailure.message
  /\ errorSnackbar = [open |-> TRUE, message |-> RevokeFailure.message]

\* C10: right after a pending revocation succeeded the dialog is idle (not
\* revoking, no error), it has called onClose and then onSuccess with the new
\* secret and nothing else, the confirmation dialog is closed and the
\* disclosure dialog is open holding that secret.
C10_SuccessOpensDisclosure ==
  lastOp = "ConfirmSucceeds" =>
    /\ ~isRevoking
    /\ error = Null
    /\ \E secret \in Secrets :
         /\ calls = <<Call("onClose", ""), Call("onSuccess", secret)>>
         /\ newClientSecret = secret
    /\ ~revokeDialogOpen
    /\ secretDialogOpen

\* a revocation that succeeded on a retry after a failure was reported
C10_Witness ==
  /\ lastOp = "ConfirmSucceeds"
  /\ secretDialogOpen
  /\ newClientSecret \in Secrets
  /\ errorSnackbar.message = RevokeFailure.message

\* C11 as stated: after a cancel or a dismiss the dialog is closed, onClose
\* was called once, there is no error message and the dialog is not revoking.
C11_CancelLeavesIdle ==
  lastOp \in {"CancelClick", "Dismiss"} =>
    /\ calls = <<Call("onClose", "")>>
    /\ ~revokeDialogOpen
    /\ error = Null
    /\ ~isRevoking

\* C11 amended: after a cancel or a dismiss the dialog is closed, onClose was
\* called once and there is no error message; it is not revoking either,
\* except after a dismiss made while a revocation was in flight, which stays
\* in flight.
C11_CancelClosesAndClears ==
  lastOp \in {"CancelClick", "Dismiss"} =>
    /\ calls = <<Call("onClose", "")>>
    /\ ~revokeDialogOpen
    /\ error = Null
    /\ isRevoking => (lastOp = "Dismiss" /\ awaiting = 1)

\* a cancel after a failure had been shown: closed, message cleared, idle
C11_Witness ==
  /\ lastOp = "CancelClick"
  /\ errorSnackbar.message = RevokeFailure.message
  /\ ~revokeDialogOpen /\ error = Null /\ ~isRevoking

\* C12: right after the panel opened the confirmation dialog, the dialog has
\* no error message.
C12_ReopenClearsError ==
  lastOp = "handleRevokeClick" => error = Null

\* C13: a revocation that completes while the confirmation dialog is closed
\* calls neither onSuccess nor onError, does not open the disclosure dialog
\* and sets no error message.
C13_NoReactionAfterClose ==
  [][(lastOp' \in {"ConfirmSucceeds", "ConfirmFails"} /\ ~revokeDialogOpen) =>
       /\ \A k \in 1..Len(calls') : calls'[k].cb \notin {"onSuccess", "onError"}
       /\ secretDialogOpen' = secretDialogOpen
       /\ error' = error]_vars

\* C14: a confirm with no application id leaves the dialog idle with its
\* error message as it was, starts no revocation and calls no callback.
C14_ConfirmWithoutIdIsNoOp ==
  /\ [](applicationId = "" => (awaiting = 0 /\ ~isRevoking))
  /\ [][(lastOp' = "ConfirmClick" /\ applicationId = "") =>
          /\ ~isRevoking'
          /\ error' = error
          /\ awaiting' = awaiting
          /\ calls' = <<>>
          /\ output' = <<>>
          /\ UNCHANGED <<revokeDialogOpen, secretDialogOpen, newClientSecret,
                         errorSnackbar>>]_vars

\* the Revoke button was clicked in a dialog that has no application id
C14_Witness ==
  /\ lastOp = "ConfirmClick"
  /\ applicationId = ""
  /\ revokeDialogOpen
  /\ ~isRevoking

\* C15: the disclosure dialog opens only on a successful revocation, with the
\* secret that revocation delivered to onSuccess, and while it stays open no
\* step changes the secret it displays.
C15_DisplaysDeliveredSecret ==
  /\ [](secretDialogOpen => newClientSecret \in Secrets)
  /\ [][/\ lastOp' = "ConfirmSucceeds" =>
             /\ secretDialogOpen'
             /\ \E k \in 1..Len(calls') :
                  calls'[k] = Call("onSuccess", newClientSecret')
        /\ (secretDialogOpen' /\ lastOp' # "ConfirmSucceeds") =>
             /\ secretDialogOpen
             /\ newClientSecret' = newClientSecret]_vars

\* the error snackbar of an earlier failure is closed while the disclosure
\* dialog shows the secret of the revocation that then succeeded
C15_Witness ==
  /\ lastOp = "handleSnackbarClose"
  /\ secretDialogOpen
  /\ newClientSecret \in Secrets

\* C16: while the disclosure dialog is closed the panel holds the empty
\* string, and only a successful revocation makes it hold a secret.
C16_ClosedHoldsNoSecret ==
  /\ [](~secretDialogOpen => newClientSecret = "")
  /\ [][(newClientSecret = "" /\ newClientSecret' # "") =>
          lastOp' = "ConfirmSucceeds"]_vars

\* the disclosure dialog was closed after a secret had been copied from it
C16_Witness ==
  /\ lastOp = "handleClose"
  /\ ~secretDialogOpen
  /\ newClientSecret = ""
  /\ clipboard \in Secrets

\* C17: a closed disclosure dialog has its visibility reset, so every step
\* that opens it shows the secret masked.
C17_OpensMasked ==
  /\ [](~secretDialogOpen => ~showSecret)
  /\ [][(~secretDialogOpen /\ secretDialogOpen') => ~showSecret']_vars

\* the disclosure dialog opens again, masked, after an earlier opening in
\* which a secret was copied
C17_Witness ==
  /\ lastOp = "ConfirmSucceeds"
  /\ secretDialogOpen
  /\ ~showSecret
  /\ clipboard \in Secrets

\* C18: every step that opens the disclosure dialog leaves its copied flag
\* false.
C18_OpensNotCopied ==
  [][(~secretDialogOpen /\ secretDialogOpen') => ~copied']_vars

\* C19: an activation of either copy control calls the clipboard write once,
\* with the secret the dialog was given, masked or revealed.
C19_CopyWritesCurrentSecret ==
  lastOp \in {"CopyIconClick", "CopyButtonClick"} =>
    /\ newClientSecret \in Secrets
    /\ calls = <<Call("writeText", newClientSecret)>>

\* the primary copy button is activated while the secret is masked and the
\* clipboard still holds the secret of an earlier revocation
C19_Witness ==
  /\ lastOp = "CopyButtonClick"
  /\ ~showSecret
  /\ clipboard \in Secrets
  /\ clipboard # newClientSecret

\* C20: a clipboard write that rejects leaves the copied flag and the
\* visibility as they were, starts no timer, reports no error and does not
\* close the dialog.
C20_RejectedCopyChangesNothing ==
  [][lastOp' = "ClipboardRejects" =>
       /\ copied' = copied
       /\ showSecret' = showSecret
       /\ copyTimers' = copyTimers
       /\ calls' = <<>>
       /\ output' = <<>>
       /\ UNCHANGED <<error, errorSnackbar, secretDialogOpen, newClientSecret,
                      clipboard>>]_vars

\* a write rejects in an open, revealed dialog whose copied flag is false
C20_Witness ==
  /\ lastOp = "ClipboardRejects"
  /\ secretDialogOpen
  /\ showSecret
  /\ ~copied
  /\ copyTimers = 0

\* ------------------------------------------------------------------------
\* Properties of the update request (checked under SpecWorkflow)
\* ------------------------------------------------------------------------

ServerFields == {"id", "created_at", "updated_at"}

\* the indices of the oauth2 entries of a record's inbound-auth list
OAuth2Entries(rec) ==
  IF "inbound_auth_config" \in DOMAIN rec
  THEN {j \in 1..Len(rec["inbound_auth_config"]) :
          rec["inbound_auth_config"][j].type = "oauth2"}
  ELSE {}

\* C21: the update request built from a fetched record has none of the keys
\* id, created_at, updated_at and has every other top-level field of the
\* record with the record's value; the body of the PUT has none of the three
\* keys either.
C21_StripsServerFields ==
  \A i \in Inv :
    Puts(i) # {} =>
      LET request == toUpdateRequest(currentApplication[i])
      IN  /\ DOMAIN request \cap ServerFields = {}
          /\ \A k \in DOMAIN currentApplication[i] \ ServerFields :
               k \in DOMAIN request /\ request[k] = currentApplication[i][k]
          /\ \A k \in Puts(i) :
               /\ DOMAIN httpLog[i][k].body =
                    DOMAIN currentApplication[i] \ ServerFields
               /\ httpLog[i][k].body.name = currentApplication[i].name

\* a PUT was dispatched for a record the server had already replaced once
C21_Witness ==
  \E i \in Inv :
    /\ Puts(i) # {}
    /\ currentApplication[i].id = "a1"
    /\ currentApplication[i].updated_at = 1
    /\ "inbound_auth_config" \in DOMAIN updateRequest[i]

\* C22: for a fetched record with exactly one oauth2 entry, the request that
\* is PUT has that entry's client_secret set to the generated secret, and
\* every other entry, the entry's type, the other fields of its config and
\* the other fields of the request are those of the stripped record.
C22_InjectionChangesOnlyTheSecret ==
  \A i \in Inv :
    (Puts(i) # {} /\ Cardinality(OAuth2Entries(currentApplication[i])) = 1) =>
      LET stripped == toUpdateRequest(currentApplication[i])
          list == stripped["inbound_auth_config"]
          out == updateRequest[i]["inbound_auth_config"]
          j == CHOOSE h \in OAuth2Entries(currentApplication[i]) : TRUE
      IN  /\ \A k \in Puts(i) : httpLog[i][k].body = updateRequest[i]
          /\ DOMAIN updateRequest[i] = DOMAIN stripped
          /\ \A k \in DOMAIN stripped \ {"inbound_auth_config"} :
               updateRequest[i][k] = stripped[k]
          /\ Len(out) = Len(list)
          /\ \A h \in 1..Len(list) : h # j => out[h] = list[h]
          /\ DOMAIN out[j] = DOMAIN list[j]
          /\ out[j].type = list[j].type
          /\ DOMAIN out[j].config = DOMAIN list[j].config
          /\ out[j].config.client_secret = mutationSecret[i]
          /\ \A f \in DOMAIN list[j].config \ {"client_secret"} :
               out[j].config[f] = list[j].config[f]

\* the secret was injected into the second entry of a two-entry list
C22_Witness ==
  \E i \in Inv :
    /\ Puts(i) # {}
    /\ OAuth2Entries(currentApplication[i]) = {2}
    /\ updateRequest[i]["inbound_auth_config"][1] = OtherEntry
    /\ updateRequest[i]["inbound_auth_config"][2].config.client_secret \in Secrets

\* the client_secret values a request carries
SecretsCarried(request) ==
  IF "inbound_auth_config" \in DOMAIN request
  THEN {request["inbound_auth_config"][j].config.client_secret :
          j \in 1..Len(request["inbound_auth_config"])}
  ELSE {}

\* C23: for a fetched record with no oauth2 entry the body of the PUT is the
\* stripped record and carries the generated secret nowhere; the invocation
\* fails only with the error of its request, and when it succeeds it returns
\* a generated secret and has invalidated both cache keys.
C23_NoOAuth2EntryIsSilentNoOp ==
  \A i \in Inv :
    (Puts(i) # {} /\ OAuth2Entries(currentApplication[i]) = {}) =>
      /\ mutationSecret[i] \in Secrets
      /\ updateRequest[i] = toUpdateRequest(currentApplication[i])
      /\ \A k \in Puts(i) :
           /\ httpLog[i][k].body = toUpdateRequest(currentApplication[i])
           /\ mutationSecret[i] \notin SecretsCarried(httpLog[i][k].body)
      /\ pc[i] = "error" => \E k \in Puts(i) : Failed(i, k)
      /\ pc[i] = "success" =>
           /\ data[i].clientSecret = mutationSecret[i]
           /\ KeysInvalidated(i, ApplicationKey(variables[i])) # {}
           /\ KeysInvalidated(i, ApplicationsKey) # {}

\* a revoke of a record without the inbound-auth field succeeded and left no
\* secret on the server
C23_Witness ==
  \E i \in Inv :
    /\ pc[i] = "success"
    /\ ~("inbound_auth_config" \in DOMAIN currentApplication[i])
    /\ data[i].clientSecret \in Secrets
    /\ SecretsCarried(server[variables[i]]) = {}

\* C30: invocations that overlap stay separate: each has its own GET and
\* PUT, its body is built from the record its own GET returned and from its
\* own secret, and it returns that secret; the server's record changes only
\* when a PUT is applied, and then it holds what that PUT carried, so after
\* several succeeded it holds the secret of the PUT applied last.
C30_ConcurrentInvocationsIndependent ==
  /\ [](\A i \in Inv :
          /\ Cardinality(Gets(i)) <= 1 /\ Cardinality(Puts(i)) <= 1
          /\ Puts(i) # {} =>
               /\ updateRequest[i] =
                    InjectSecret(toUpdateRequest(currentApplication[i]),
                                 mutationSecret[i])
               /\ \A k \in Puts(i) : httpLog[i][k].body = updateRequest[i]
          /\ pc[i] \in {"onSuccess", "success"} =>
               data[i].clientSecret = mutationSecret[i])
  /\ [][\A a \in AppIds :
          /\ server'[a] # server[a] =>
               \E i \in Inv : variables[i] = a /\ pc[i] = "put" /\ pc'[i] = "onSuccess"
          /\ \A i \in Inv :
               (variables[i] = a /\ pc[i] = "put" /\ pc'[i] = "onSuccess") =>
                 /\ toUpdateRequest(server'[a]) = updateRequest[i]
                 /\ HasOAuth2(updateRequest[i]) =>
                      OAuth2Secret(server'[a]) = mutationSecret[i]]_vars

\* both invocations fetched the record before either PUT was applied, both
\* succeeded with different secrets, and the PUT of the first was applied last
C30_Witness ==
  /\ variables[1] = "a1" /\ variables[2] = "a1"
  /\ pc[1] = "success" /\ pc[2] = "success"
  /\ currentApplication[1].updated_at = 0
  /\ currentApplication[2].updated_at = 0
  /\ mutationSecret[1] # mutationSecret[2]
  /\ HasOAuth2(server["a1"])
  /\ OAuth2Secret(server["a1"]) = mutationSecret[1]
  /\ server["a1"].updated_at = 2

\* ------------------------------------------------------------------------
\* Further properties of the dialogs (checked under SpecDialog)
\* ------------------------------------------------------------------------

\* C24: no line a handler writes to the logger or to the console carries a
\* secret: the secret leaves the confirmation dialog through onSuccess only.
C24_SecretOnlyInResult ==
  \A k \in 1..Len(output) : output[k].payload \notin Secrets

\* C26: while the dialog is revoking it has no error message: the step that
\* starts revoking leaves none, and a message is set only by the step that
\* ends revoking.
C26_PendingHasNoError ==
  /\ [](isRevoking => error = Null)
  /\ [][/\ (~isRevoking /\ isRevoking') => error' = Null
        /\ (error' # Null /\ error' # error) => (isRevoking /\ ~isRevoking')]_vars

\* a confirm made while the failure of the previous attempt was on display
C26_Witness ==
  /\ lastOp = "ConfirmClick"
  /\ isRevoking
  /\ error = Null
  /\ errorSnackbar = [open |-> TRUE, message |-> RevokeFailure.message]

\* C27 (safety half): a clipboard write that resolves sets the copied flag,
\* and a timer that ends the copied state of an open dialog is the one of the
\* latest copy, so no timer is left outstanding after it.
C27_ConfirmedUntilOwnTimer ==
  [][/\ lastOp' = "ClipboardResolves" => copied'
     /\ (lastOp' = "CopyTimerFires" /\ secretDialogOpen /\ copied) =>
          copyTimers' = 0]_vars

\* the callbacks named cb among those the last handler invoked
CallsOf(cb) == {k \in 1..Len(calls) : calls[k].cb = cb}

\* C28: a revocation is started only by a confirm with an application id,
\* which calls nothing; the step that completes it calls either onClose and
\* then onSuccess, or onError alone, each once; no other step calls onSuccess
\* or onError.
C28_ExactlyOneOutcomeCallback ==
  /\ [](/\ CallsOf("onSuccess") \cup CallsOf("onError") # {} =>
             lastOp \in {"ConfirmSucceeds", "ConfirmFails"}
        /\ lastOp = "ConfirmSucceeds" =>
             /\ Cardinality(CallsOf("onSuccess")) = 1
             /\ Cardinality(CallsOf("onClose")) = 1
             /\ CallsOf("onError") = {}
        /\ lastOp = "ConfirmFails" =>
             /\ Cardinality(CallsOf("onError")) = 1
             /\ CallsOf("onSuccess") = {}
             /\ CallsOf("onClose") = {})
  /\ [][/\ awaiting' > awaiting =>
             /\ awaiting' = awaiting + 1
             /\ lastOp' = "ConfirmClick" /\ applicationId # "" /\ calls' = <<>>
        /\ awaiting' < awaiting =>
             /\ awaiting' = awaiting - 1
             /\ lastOp' \in {"ConfirmSucceeds", "ConfirmFails"}
        /\ lastOp' \in {"ConfirmSucceeds", "ConfirmFails"} =>
             awaiting' = awaiting - 1]_vars

\* the only revocation in flight has failed: onError was called, alone
C28_Witness ==
  /\ lastOp = "ConfirmFails"
  /\ awaiting = 0
  /\ calls = <<Call("onError", RevokeFailure.message)>>
  /\ ~secretDialogOpen

\* C29: a dialog that is revoking eventually is not, given that the awaited
\* delay settles.
C29_PendingEnds == isRevoking ~> ~isRevoking

\* a revocation completed on the failure path after the dialog was dismissed
C29_Witness ==
  /\ lastOp = "ConfirmFails"
  /\ ~isRevoking
  /\ awaiting = 0
  /\ ~revokeDialogOpen

\* ------------------------------------------------------------------------
\* Retries beside another writer (checked under SpecRetry)
\* ------------------------------------------------------------------------

\* C25: the step that resolves an invocation's GET builds the body of its PUT
\* from the record the server holds at that step and from the secret just
\* generated, whatever earlier invocations fetched or sent; so the body has
\* the name the record had then, and when the PUT is applied the record gets
\* the name that GET returned.
C25_RetryBuildsOnFreshRecord ==
  [][\A i \in Inv :
       /\ (pc[i] = "get" /\ pc'[i] = "put") =>
            LET fetched == server[variables[i]]
            IN  /\ currentApplication'[i] = fetched
                /\ updateRequest'[i] =
                     InjectSecret(toUpdateRequest(fetched), mutationSecret'[i])
                /\ updateRequest'[i].name = fetched.name
                /\ httpLog'[i][2].body = updateRequest'[i]
       /\ (pc[i] = "put" /\ pc'[i] = "onSuccess") =>
            server'[variables[i]].name = currentApplication[i].name]_vars

\* the first invocation failed at its PUT, the record was renamed by another
\* writer, and the retry sent and stored the new name
C25_Witness ==
  /\ pc[1] = "error" /\ Len(httpLog[1]) = 2
  /\ variables[1] = "a1" /\ variables[2] = "a1"
  /\ currentApplication[1].name = "app"
  /\ pc[2] = "success"
  /\ updateRequest[2].name = "renamed"
  /\ server["a1"].name = "renamed"

====
